---- MODULE Spec2Model ----
(***************************************************************************)
(* State-machine model of src/src/dynamic_programming/stress_damage_lh.cpp  *)
(* (dynamic programming model of stress response with somatic damage).      *)
(*                                                                          *)
(* Real numbers (C++ double) are modelled in fixed point: a value v is the  *)
(* integer v*SCALE, products and quotients truncate to one quantum 1/SCALE. *)
(* The lattice sizes maxT, maxTs, maxD, maxH and the iteration cap maxI keep *)
(* the source's names and are scaled down to model-checkable values.        *)
(***************************************************************************)
EXTENDS Integers, Sequences, FiniteSets, TLC

\* ------------------------------------------------------------------ bounds
maxT == 2
maxTs == 2
maxD == 1
maxH == 5
maxI == 4

\* ------------------------------------------------------- program constants
hslope == 20
repair == 1

\* ------------------------------------------------------------- fixed point
SCALE == 100 * 100
Mul(a, b) == (a * b) \div SCALE
Div(a, b) == (a * SCALE) \div b
Min(a, b) == IF a < b THEN a ELSE b
Max(a, b) == IF a > b THEN a ELSE b
Abs(a) == IF a < 0 THEN -a ELSE a

\* hmin = 0.3 as the fraction hminNum/hminDen
hminNum == 3
hminDen == 10
\* mu0 = 0.002
mu0 == SCALE \div 500
\* the convergence tolerance 0.000001 of main: x < 0.000001
BelowTol(x) == x * ((1000 * 1000) \div SCALE) < 1

VARIABLES
  pLeave, pArrive, pAttack, alpha, Kmort, Kfec,   \* run-time parameters
  hormone, Wopt, W, V, Wnext, F,                  \* global arrays
  totfitdiff, i,                                  \* globals of main
  t, ts, d, h,                                    \* loop variables
  LHS, RHS, x1, x2, fitness_x1, fitness_x2,       \* locals of OptDec
  predDeaths, damageDeaths, bkgrndDeaths, maxfreqdiff, fwd_i, \* locals of fwdCalc
  pc,                                             \* position in the program
  report, printed,                                \* what was written to outputfile
  assigned, reads, epochWopt,                     \* history: array writes / reads of OptDec
  processed, late, lastMove,                      \* history: fwdCalc bookkeeping
  time_i, attack, reproduce,                      \* locals of SimAttacks
  simRead                                         \* history: indices of the last policy read

params == <<pLeave, pArrive, pAttack, alpha, Kmort, Kfec>>
arrays == <<hormone, Wopt, W, V, Wnext>>
mainv == <<totfitdiff, i, report, printed>>
searchv == <<LHS, RHS, x1, x2, fitness_x1, fitness_x2>>
fwdv == <<F, h, predDeaths, damageDeaths, bkgrndDeaths, maxfreqdiff, fwd_i,
          processed, late, lastMove>>
histv == <<assigned, reads, epochWopt>>
simv == <<time_i, attack, reproduce, simRead>>
vars == <<params, arrays, mainv, searchv, fwdv, histv, simv, t, ts, d, pc>>

TRange == 0..maxT
TsRange == 0..maxTs
DRange == 0..maxD
HRange == 0..maxH

\* ---------------------------------------------------- golden-section search
\* round(double(n)*phi_inv), phi_inv = (sqrt(5)-1)/2: the integer r with
\* |r - n*phi_inv| < 1/2, i.e. 2r-1 < n*(sqrt(5)-1) < 2r+1, decided in integers.
RoundPhiNat(n) ==
  CHOOSE r \in 0..n :
    /\ (2 * r - 1 + n < 0 \/ (2 * r - 1 + n) * (2 * r - 1 + n) < 5 * n * n)
    /\ 5 * n * n < (2 * r + 1 + n) * (2 * r + 1 + n)

\* a plausible slip: truncation instead of rounding
TruncPhiNat(n) ==
  CHOOSE r \in 0..n :
    /\ (2 * r + n) * (2 * r + n) <= 5 * n * n
    /\ 5 * n * n < (2 * r + 2 + n) * (2 * r + 2 + n)
TruncPhi(n) == IF n >= 0 THEN TruncPhiNat(n) ELSE -TruncPhiNat(-n)

\* a plausible slip: the golden ratio itself instead of its inverse,
\* round(n * phi) = n + round(n * phi_inv)
RoundPhiGolden(n) == IF n >= 0 THEN n + RoundPhiNat(n) ELSE n - RoundPhiNat(-n)
RoundPhi(n) == IF n >= 0 THEN RoundPhiNat(n) ELSE -RoundPhiNat(-n)

\* a plausible slip: the row of t itself instead of its successor
SuccTSame(tt) == tt
\* line 227: the time-since-attack index of the next time step
SuccT(tt) == Min(maxT, tt + 1)
\* the row of Wnext the decision search of state (t, ts, d) maximises over
Objective(tt, tss, dd) == Wnext[SuccT(tt)][tss + 1][dd]

\* ------------------------------------------------------------ array shapes
ZeroW == [tt \in TRange |-> [s \in TsRange |-> [dd \in DRange |-> [hh \in HRange |-> 0]]]]
ZeroWopt == [tt \in TRange |-> [s \in TsRange |-> [dd \in DRange |-> 0]]]
ZeroV == [tt \in TRange |-> [dd \in DRange |-> [hh \in HRange |-> 0]]]

\* value of an uninitialised local double: whatever the stack holds
Garbage == {0, 7}

\* OptDec, lines 216-219: start of the search for state (t, ts, d)
SearchBegin ==
  /\ pc = "search_begin"
  /\ LHS' = 0
  /\ RHS' = maxH
  /\ x1' = maxH - RoundPhi(maxH - 0)
  /\ x2' = 0 + RoundPhi(maxH - 0)
  /\ pc' = "search_loop"
  /\ UNCHANGED <<simv, params, arrays, mainv, fwdv, histv, t, ts, d, fitness_x1, fitness_x2>>

\* line 230: the left part of the bracket is discarded when fitness_x1 < fitness_x2
DiscardLeftFlipped(f1, f2) == f1 > f2
DiscardLeft(f1, f2) == f1 < f2

\* the read of Wnext at lines 227-228, logged with whether the row was assigned
WnextRead(tt, tss, dd) ==
  <<"Wnext", SuccT(tt), tss + 1, dd, <<"Wnext", SuccT(tt), tss + 1, dd>> \in assigned>>

\* OptDec, lines 221-242: one pass of while (x1 < x2)
SearchStep ==
  /\ pc = "search_loop"
  /\ x1 < x2
  /\ LET f1 == Objective(t, ts, d)[x1]
         f2 == Objective(t, ts, d)[x2]
     IN /\ fitness_x1' = f1
        /\ fitness_x2' = f2
        /\ IF DiscardLeft(f1, f2)
           THEN /\ LHS' = x1
                /\ x1' = x2
                /\ x2' = RHS - RoundPhi(RHS - x2)
                /\ RHS' = RHS
           ELSE /\ RHS' = x2
                /\ x2' = x1
                /\ x1' = LHS + RoundPhi(x1 - LHS)
                /\ LHS' = LHS
  /\ reads' = reads \cup {WnextRead(t, ts, d)}
  /\ UNCHANGED <<simv, params, arrays, mainv, fwdv, assigned, epochWopt, t, ts, d, pc>>

\* OptDec, lines 245-246: the loop has ended, record decision and fitness
SearchStore ==
  /\ pc = "search_loop"
  /\ ~(x1 < x2)
  /\ hormone' = [hormone EXCEPT ![t][ts][d] = x1]
  /\ Wopt' = [Wopt EXCEPT ![t][ts][d] = fitness_x1]
  /\ assigned' = assigned \cup {<<"hormone", t, ts, d>>, <<"Wopt", t, ts, d>>}
  /\ epochWopt' = epochWopt \cup {<<t, ts, d>>}
  /\ pc' = "search_next"
  /\ UNCHANGED <<simv, params, W, V, Wnext, mainv, searchv, fwdv, reads, t, ts, d>>

\* ------------------------------------------------- inputs of the search
\* strictly unimodal rows with peak at p: strictly increasing on 0..p,
\* strictly decreasing on p..maxH; every order type over 0..maxH occurs
Nth(S, k) == CHOOSE e \in S : Cardinality({y \in S : y < e}) = k
NthDown(S, k) == CHOOSE e \in S : Cardinality({y \in S : y > e}) = k
UnimodalRow(p, L, R) ==
  [x \in HRange |-> IF x < p THEN Nth(L, x)
                    ELSE IF x = p THEN maxH
                    ELSE NthDown(R, x - p - 1)]
Levels == SUBSET (0..(maxH - 1))
UnimodalRows ==
  {UnimodalRow(q[1], q[2], q[3]) :
     q \in {r \in HRange \X Levels \X Levels :
              Cardinality(r[2]) = r[1] /\ Cardinality(r[3]) = maxH - r[1]}}
AnyRows == [HRange -> 0..2]

IsPeak(f, p) ==
  /\ \A x \in HRange : x < p => f[x] < f[x + 1]
  /\ \A x \in HRange : (x >= p /\ x < maxH) => f[x] > f[x + 1]

\* the lattice states the search is exercised at: with and without the
\* censoring of t+1 at maxT, first and last epoch
SearchStates == {<<0, maxTs - 1, 0>>, <<maxT, 0, maxD>>}

DefaultParams ==
  /\ pLeave = SCALE \div 2
  /\ pArrive = SCALE \div 10
  /\ pAttack = SCALE \div 2
  /\ alpha = 1
  /\ Kmort = 0
  /\ Kfec = SCALE \div 20

IdleMain ==
  /\ totfitdiff = 0
  /\ i = 0
  /\ report = FALSE
  /\ printed = <<>>

IdleFwd ==
  /\ F = ZeroW
  /\ h = 0
  /\ predDeaths = 0
  /\ damageDeaths = 0
  /\ bkgrndDeaths = 0
  /\ maxfreqdiff = 0
  /\ fwd_i = 0
  /\ processed = {}
  /\ late = {}
  /\ lastMove = <<>>

IdleSim ==
  /\ time_i = 0
  /\ attack = FALSE
  /\ reproduce = 0
  /\ simRead = <<>>

\* a decision search in the middle of OptDec, over any objective row
InitSearch ==
  /\ DefaultParams
  /\ IdleMain
  /\ IdleSim
  /\ IdleFwd
  /\ \E st \in SearchStates, f \in UnimodalRows \cup AnyRows :
       /\ t = st[1]
       /\ ts = st[2]
       /\ d = st[3]
       /\ Wnext = [ZeroW EXCEPT ![SuccT(st[1])][st[2] + 1][st[3]] = f]
  /\ hormone = ZeroWopt
  /\ Wopt = ZeroWopt
  /\ W = ZeroW
  /\ V = ZeroV
  /\ LHS = 0
  /\ RHS = 0
  /\ x1 = 0
  /\ x2 = 0
  /\ fitness_x1 \in Garbage
  /\ fitness_x2 = 0
  /\ pc = "search_begin"
  /\ assigned = {<<"Wnext", tt, tss, dd>> : tt \in 1..maxT, tss \in 1..maxTs, dd \in DRange}
  /\ reads = {}
  /\ epochWopt = {}

NextSearch == SearchBegin \/ SearchStep \/ SearchStore
SpecSearch == InitSearch /\ [][NextSearch]_vars
\* the loop is sequential code: it keeps running while a step is possible
SpecSearchFair == SpecSearch /\ WF_vars(NextSearch)

\* ------------------------------------------------------- static arrays
\* PredProb, lines 119-132: probability that the predator is present
RECURSIVE pPred(_)
pPred(tt) ==
  IF tt <= 1
  THEN SCALE - pLeave
  ELSE LET p == pPred(tt - 1)
       IN Div(Mul(Mul(p, SCALE - pAttack), SCALE - pLeave) + Mul(SCALE - p, pArrive),
              SCALE - Mul(p, pAttack))

\* pow(double(h)/double(maxH), alpha) for a whole exponent alpha
RECURSIVE IntPow(_, _)
IntPow(b, e) == IF e = 0 THEN 1 ELSE b * IntPow(b, e - 1)

\* Predation, lines 137-145
pKilled(hh) == Max(0, SCALE - (IntPow(hh, alpha) * SCALE) \div IntPow(maxH, alpha))

\* Mortality, lines 149-157
mu(dd) == Min(SCALE, mu0 + Kmort * dd)

\* Damage, lines 162-173: dnew[d][h] as the exact fraction dnewNum/dnewDen,
\* clamped to [0, maxD]
dnewDen == hminDen * hminDen * maxH * maxH
dnewNum(dd, hh) ==
  LET dev == hminNum * maxH - hminDen * hh
      raw == (dd - repair) * dnewDen + hslope * dev * dev
  IN Max(0, Min(maxD * dnewDen, raw))
\* lines 259-261 (and 399-401): floor, ceil and fractional part of dnew[d][h]
d1Of(dd, hh) == dnewNum(dd, hh) \div dnewDen
d2Of(dd, hh) ==
  IF dnewNum(dd, hh) % dnewDen = 0 THEN d1Of(dd, hh) ELSE d1Of(dd, hh) + 1
ddecOf(dd, hh) == ((dnewNum(dd, hh) % dnewDen) * SCALE) \div dnewDen

\* Reproduction, lines 177-193
repro(tss, dd) == IF tss % maxTs = 0 THEN Max(0, SCALE - Kfec * dd) ELSE 0

RECURSIVE SumFn(_)
SumFn(f) ==
  IF DOMAIN f = {}
  THEN 0
  ELSE LET x == CHOOSE y \in DOMAIN f : TRUE
       IN f[x] + SumFn([y \in DOMAIN f \ {x} |-> f[y]])

\* ------------------------------------------------ value-iteration engine
\* FinalFit, lines 101-115, as called from main (lines 609-618: the static
\* arrays are computed, then the for loop starts with i = 1)
FinalFit ==
  /\ pc = "main"
  /\ V' = [tt \in TRange |-> [dd \in DRange |-> [hh \in HRange |->
             IF tt >= 1 THEN repro(maxTs, dd) ELSE V[tt][dd][hh]]]]
  /\ Wnext' = [tt \in TRange |-> [s \in TsRange |-> [dd \in DRange |-> [hh \in HRange |->
                 IF tt >= 1 /\ s = maxTs THEN repro(maxTs, dd) ELSE Wnext[tt][s][dd][hh]]]]]
  /\ assigned' = assigned \cup {<<"Wnext", tt, maxTs, dd>> : tt \in 1..maxT, dd \in DRange}
  /\ i' = 1
  /\ pc' = "for_i"
  /\ UNCHANGED <<simv, params, hormone, Wopt, W, totfitdiff, report, printed, searchv, fwdv,
                 reads, epochWopt, t, ts, d>>

\* main, line 618, and OptDec, lines 198-212: the loop test i <= maxI; the
\* body enters OptDec, whose local doubles are uninitialised
OptDecEnter ==
  /\ pc = "for_i"
  /\ IF i <= maxI
     THEN /\ ts' = maxTs - 1
          /\ t' = 0
          /\ d' = 0
          /\ fitness_x1' \in Garbage
          /\ fitness_x2' \in Garbage
          /\ epochWopt' = {}
          /\ pc' = "search_begin"
     ELSE /\ pc' = "print"
          /\ UNCHANGED <<t, ts, d, fitness_x1, fitness_x2, epochWopt>>
  /\ UNCHANGED <<simv, params, arrays, mainv, fwdv, assigned, reads, LHS, RHS, x1, x2>>

\* OptDec, lines 210-212 and 247-248: next d, next t, or on to the fitness loop
SearchNext ==
  /\ pc = "search_next"
  /\ IF d < maxD
     THEN /\ d' = d + 1
          /\ t' = t
          /\ pc' = "search_begin"
     ELSE IF t < maxT
     THEN /\ d' = 0
          /\ t' = t + 1
          /\ pc' = "search_begin"
     ELSE /\ pc' = "backprop"
          /\ UNCHANGED <<t, d>>
  /\ UNCHANGED <<simv, params, arrays, mainv, searchv, fwdv, histv, ts>>

\* lines 263-266: the weights of the two branches of the fitness recursion,
\* <<survives an attack, no attack>>
BranchWeightsComplement(tt, hh) ==
  LET a == Mul(Mul(pPred(tt), pAttack), SCALE - pKilled(hh))
  IN <<a, SCALE - a>>
BranchWeights(tt, hh) ==
  <<Mul(Mul(pPred(tt), pAttack), SCALE - pKilled(hh)), SCALE - Mul(pPred(tt), pAttack)>>

\* line 414: the share killed by the predator
KilledWeight(tt, hh) == Mul(Mul(pPred(tt), pAttack), pKilled(hh))

\* lines 263-266: W[t][ts][d][h] from Wopt of the same epoch
Fitness(tt, tss, dd, hh) ==
  LET d1 == d1Of(dd, hh)
      d2 == d2Of(dd, hh)
      ddec == ddecOf(dd, hh)
      w == BranchWeights(tt, hh)
  IN Mul(Mul(w[1], SCALE - mu(dd)),
         repro(tss, dd) + Mul(SCALE - ddec, Wopt[0][tss][d1]) + Mul(ddec, Wopt[0][tss][d2]))
     + Mul(Mul(w[2], SCALE - mu(dd)),
           repro(tss, dd) + Mul(SCALE - ddec, Wopt[tt][tss][d1]) + Mul(ddec, Wopt[tt][tss][d2]))

\* the reads of Wopt at lines 264 and 266, logged with whether the entry was
\* written in this epoch
WoptReads(tss) ==
  {<<"Wopt", tt, tss, dd, <<tt, tss, dd>> \in epochWopt>> :
     <<tt, dd>> \in UNION {{<<0, d1Of(e[2], e[3])>>, <<0, d2Of(e[2], e[3])>>,
                            <<e[1], d1Of(e[2], e[3])>>, <<e[1], d2Of(e[2], e[3])>>} :
                           e \in (1..maxT) \X DRange \X HRange}}

\* OptDec, lines 253-274: the fitness loop of epoch ts, then the next epoch
BackProp ==
  /\ pc = "backprop"
  /\ W' = [tt \in TRange |-> [s \in TsRange |-> [dd \in DRange |-> [hh \in HRange |->
             IF tt >= 1 /\ s = ts THEN Fitness(tt, ts, dd, hh) ELSE W[tt][s][dd][hh]]]]]
  /\ Wnext' = [tt \in TRange |-> [s \in TsRange |-> [dd \in DRange |-> [hh \in HRange |->
                 IF tt >= 1 /\ s = ts THEN Fitness(tt, ts, dd, hh) ELSE Wnext[tt][s][dd][hh]]]]]
  /\ reads' = reads \cup WoptReads(ts)
  /\ assigned' = assigned \cup {<<"Wnext", tt, ts, dd>> : tt \in 1..maxT, dd \in DRange}
  /\ IF ts > 0
     THEN /\ ts' = ts - 1
          /\ t' = 0
          /\ d' = 0
          /\ epochWopt' = {}
          /\ pc' = "search_begin"
     ELSE /\ pc' = "replace"
          /\ UNCHANGED <<t, ts, d, epochWopt>>
  /\ UNCHANGED <<simv, params, hormone, Wopt, V, mainv, searchv, fwdv>>

\* line 287: the first t of the loops of ReplaceFit
ReplaceFitCells == (1..maxT) \X DRange \X HRange

\* ReplaceFit, lines 280-305
ReplaceFit ==
  /\ pc = "replace"
  /\ totfitdiff' = SumFn([c \in ReplaceFitCells |-> Abs(V[c[1]][c[2]][c[3]] - W[c[1]][0][c[2]][c[3]])])
  /\ Wnext' = [tt \in TRange |-> [s \in TsRange |-> [dd \in DRange |-> [hh \in HRange |->
                 IF <<tt, dd, hh>> \in ReplaceFitCells /\ s = maxTs
                 THEN W[tt][0][dd][hh] ELSE Wnext[tt][s][dd][hh]]]]]
  /\ hormone' = [tt \in TRange |-> [s \in TsRange |-> [dd \in DRange |->
                   IF (\E hh \in HRange : <<tt, dd, hh>> \in ReplaceFitCells) /\ s = maxTs
                   THEN hormone[tt][0][dd] ELSE hormone[tt][s][dd]]]]
  /\ V' = [tt \in TRange |-> [dd \in DRange |-> [hh \in HRange |->
             IF <<tt, dd, hh>> \in ReplaceFitCells THEN W[tt][0][dd][hh] ELSE V[tt][dd][hh]]]]
  /\ assigned' = assigned \cup {<<"Wnext", c[1], maxTs, c[2]>> : c \in ReplaceFitCells}
                          \cup {<<"hormone", c[1], maxTs, c[2]>> : c \in ReplaceFitCells}
  /\ pc' = "check"
  /\ UNCHANGED <<simv, params, Wopt, W, i, report, printed, searchv, fwdv, reads, epochWopt, t, ts, d>>

\* a plausible slip: the loop never leaves early
MainCheckNoBreak ==
  /\ pc = "check"
  /\ report' = (report \/ i = maxI)
  /\ i' = i + 1
  /\ pc' = "for_i"
  /\ UNCHANGED <<simv, params, arrays, totfitdiff, printed, searchv, fwdv, histv, t, ts, d>>

\* main, lines 624-632: break on convergence, else report at the last
\* iteration, then ++i
MainCheck ==
  /\ pc = "check"
  /\ IF BelowTol(totfitdiff)
     THEN /\ pc' = "print"
          /\ UNCHANGED <<i, report>>
     ELSE /\ report' = (report \/ i = maxI)
          /\ i' = i + 1
          /\ pc' = "for_i"
  /\ UNCHANGED <<simv, params, arrays, totfitdiff, printed, searchv, fwdv, histv, t, ts, d>>

\* main, lines 634-637, and PrintStrat, lines 310-330
PrintStrat ==
  /\ pc = "print"
  /\ printed' = <<[tt \in TRange |-> [s \in 0..(maxTs - 1) |-> hormone[tt][s]]], i>>
  /\ pc' = "printed"
  /\ UNCHANGED <<simv, params, arrays, totfitdiff, i, report, searchv, fwdv, histv, t, ts, d>>

\* the six scalars of init_params (lines 577-585), as fixed-point values;
\* pAttack*pPred < 1 keeps the quotient of PredProb defined
ParamSets ==
  [pLeave : {SCALE \div 10, SCALE \div 2}, pArrive : {SCALE \div 10, (SCALE * 9) \div 10},
   pAttack : {SCALE \div 2, SCALE}, alpha : {1, 6}, Kmort : {0, SCALE},
   Kfec : {SCALE \div 20, SCALE}]

\* the state after construction of the globals (lines 58-97) and init_params
InitMain ==
  /\ \E q \in ParamSets :
       /\ pLeave = q.pLeave
       /\ pArrive = q.pArrive
       /\ pAttack = q.pAttack
       /\ alpha = q.alpha
       /\ Kmort = q.Kmort
       /\ Kfec = q.Kfec
  /\ IdleSim
  /\ IdleFwd
  /\ hormone = ZeroWopt
  /\ Wopt = ZeroWopt
  /\ W = ZeroW
  /\ V = ZeroV
  /\ Wnext = ZeroW
  /\ totfitdiff = 0
  /\ i = 0
  /\ report = FALSE
  /\ printed = <<>>
  /\ t = 0
  /\ ts = 0
  /\ d = 0
  /\ LHS = 0
  /\ RHS = 0
  /\ x1 = 0
  /\ x2 = 0
  /\ fitness_x1 = 0
  /\ fitness_x2 = 0
  /\ pc = "main"
  /\ assigned = {}
  /\ reads = {}
  /\ epochWopt = {}

NextMain ==
  \/ FinalFit
  \/ OptDecEnter
  \/ SearchBegin
  \/ SearchStep
  \/ SearchStore
  \/ SearchNext
  \/ BackProp
  \/ ReplaceFit
  \/ MainCheck
  \/ PrintStrat
Spec == InitMain /\ [][NextMain]_vars

\* ------------------------------------------------- forward propagation
\* the loop test of fwdCalc, line 385: maxfreqdiff > 0.000001
AboveTol(x) == x * ((1000 * 1000) \div SCALE) > 1

\* fwdCalc, lines 365-383: wipe F, put all mass at (maxT, 0, 0, 0)
FwdBegin ==
  /\ pc = "fwd"
  /\ F' = [tt \in TRange |-> [s \in TsRange |-> [dd \in DRange |-> [hh \in HRange |->
             IF tt = maxT /\ s = 0 /\ dd = 0 /\ hh = 0 THEN SCALE
             ELSE IF tt >= 1 THEN 0 ELSE F[tt][s][dd][hh]]]]]
  /\ fwd_i' = 0
  /\ maxfreqdiff' = SCALE
  /\ pc' = "fwd_while"
  /\ UNCHANGED <<simv, params, arrays, mainv, searchv, histv, t, ts, d, h,
                 predDeaths, damageDeaths, bkgrndDeaths, processed, late, lastMove>>

\* lines 385-397: the test of the while loop and the start of a sweep
FwdWhile ==
  /\ pc = "fwd_while"
  /\ IF AboveTol(maxfreqdiff)
     THEN /\ fwd_i' = fwd_i + 1
          /\ predDeaths' = 0
          /\ damageDeaths' = 0
          /\ bkgrndDeaths' = 0
          /\ t' = 1
          /\ ts' = 0
          /\ d' = 0
          /\ h' = 0
          /\ processed' = {}
          /\ late' = {}
          /\ pc' = "fwd_cell"
     ELSE /\ pc' = "fwd_out"
          /\ UNCHANGED <<fwd_i, predDeaths, damageDeaths, bkgrndDeaths, t, ts, d, h,
                         processed, late>>
  /\ UNCHANGED <<simv, params, arrays, mainv, searchv, histv, F, maxfreqdiff, lastMove>>

\* lines 409-412: the time-since-attack index the no-attack branch moves to
FwdNoAttackT(tt) == Min(maxT - 1, tt + 1)
\* lines 405 and 407: the index the survived-attack branch moves to
FwdAttackT == SuccT(0)

AddF(Fv, tt, s, dd, hh, amt) == [Fv EXCEPT ![tt][s][dd][hh] = @ + amt]

\* lines 405-412: the four shares of the mass of cell (t, ts, d, h), as
\* <<target cell, amount>>, in the order of the source
FwdMoves(tt, tss, dd, hh) ==
  LET src == F[tt][tss][dd][hh]
      d1 == d1Of(dd, hh)
      d2 == d2Of(dd, hh)
      ddec == ddecOf(dd, hh)
      att == Mul(Mul(Mul(Mul(src, pPred(tt)), pAttack), SCALE - pKilled(hh)), SCALE - mu(dd))
      noatt == Mul(Mul(src, SCALE - Mul(pPred(tt), pAttack)), SCALE - mu(dd))
      nt == FwdNoAttackT(tt)
  IN << <<(<<FwdAttackT, tss + 1, d1, hormone[0][tss][d1]>>), Mul(att, SCALE - ddec)>>,
        <<(<<FwdAttackT, tss + 1, d2, hormone[0][tss][d2]>>), Mul(att, ddec)>>,
        <<(<<nt, tss + 1, d1, hormone[nt][tss][d1]>>), Mul(noatt, SCALE - ddec)>>,
        <<(<<nt, tss + 1, d2, hormone[nt][tss][d2]>>), Mul(noatt, ddec)>> >>

RECURSIVE ApplyMoves(_, _)
ApplyMoves(Fv, mv) ==
  IF mv = <<>>
  THEN Fv
  ELSE LET c == Head(mv)[1]
       IN ApplyMoves(AddF(Fv, c[1], c[2], c[3], c[4], Head(mv)[2]), Tail(mv))

\* lines 391-420: one pass of the innermost loop body, then the loop steps
\* (h innermost, then d, then ts, then t outermost)
FwdCell ==
  /\ pc = "fwd_cell"
  /\ LET src == F[t][ts][d][h]
         mv == FwdMoves(t, ts, d, h)
         kill == Mul(Mul(pPred(t), pAttack), pKilled(h))
     IN /\ F' = ApplyMoves(F, mv)
        /\ predDeaths' = predDeaths + Mul(Mul(Mul(src, pPred(t)), pAttack), pKilled(h))
        /\ damageDeaths' = damageDeaths + Mul(Mul(src, SCALE - kill), mu(d) - mu(0))
        /\ bkgrndDeaths' = bkgrndDeaths + Mul(Mul(src, SCALE - kill), mu(0))
        /\ late' = late \cup {mv[k][1] : k \in {j \in 1..4 : mv[j][2] > 0 /\ mv[j][1] \in processed}}
        /\ lastMove' = <<t, mv[3][1][1], mv[1][1][1]>>
  /\ processed' = processed \cup {<<t, ts, d, h>>}
  /\ IF h < maxH
     THEN /\ h' = h + 1
          /\ UNCHANGED <<t, ts, d, pc>>
     ELSE IF d < maxD
     THEN /\ h' = 0
          /\ d' = d + 1
          /\ UNCHANGED <<t, ts, pc>>
     ELSE IF ts + 1 < maxTs
     THEN /\ h' = 0
          /\ d' = 0
          /\ ts' = ts + 1
          /\ UNCHANGED <<t, pc>>
     ELSE IF t < maxT
     THEN /\ h' = 0
          /\ d' = 0
          /\ ts' = 0
          /\ t' = t + 1
          /\ pc' = pc
     ELSE /\ pc' = "fwd_norm"
          /\ UNCHANGED <<t, ts, d, h>>
  /\ UNCHANGED <<simv, params, arrays, mainv, searchv, histv, maxfreqdiff, fwd_i>>

SetMax(S) == CHOOSE x \in S : \A y \in S : y <= x

FwdCells == (1..maxT) \X DRange \X HRange

\* lines 423-441: normalise at the breeding point, compare with the previous
\* cycle, copy ts = maxTs to ts = 0 and wipe ts = 1..maxTs
FwdNorm ==
  /\ pc = "fwd_norm"
  /\ LET first == Div(F[1][maxTs][0][0], SCALE - predDeaths - damageDeaths - bkgrndDeaths)
         atEnd(c) == IF c = <<1, 0, 0>> THEN first ELSE F[c[1]][maxTs][c[2]][c[3]]
         norm(c) == Div(atEnd(c), SCALE - predDeaths - damageDeaths)
     IN /\ maxfreqdiff' = SetMax({Abs(first - F[1][0][0][0])}
                                   \cup {Abs(norm(c) - F[c[1]][0][c[2]][c[3]]) : c \in FwdCells})
        /\ F' = [tt \in TRange |-> [s \in TsRange |-> [dd \in DRange |-> [hh \in HRange |->
                   IF tt >= 1
                   THEN (IF s = 0 THEN norm(<<tt, dd, hh>>) ELSE 0)
                   ELSE F[tt][s][dd][hh]]]]]
  /\ pc' = "fwd_while"
  /\ UNCHANGED <<simv, params, arrays, mainv, searchv, histv, t, ts, d, h, fwd_i,
                 predDeaths, damageDeaths, bkgrndDeaths, processed, late, lastMove>>

\* total mass of an epoch of the frequency tensor
Mass(tss) == SumFn([c \in FwdCells |-> F[c[1]][tss][c[2]][c[3]]])

\* policies handed to fwdCalc: one signal level per damage level
FwdPolicies ==
  {[tt \in TRange |-> [s \in TsRange |-> [dd \in DRange |-> g[dd]]]] : g \in [DRange -> HRange]}

FwdParamSets == {q \in ParamSets : q.alpha = 1 /\ q.Kfec = SCALE \div 20 /\ q.pArrive = SCALE \div 10}

\* fwdCalc called on a computed policy
InitFwd ==
  /\ \E q \in FwdParamSets :
       /\ pLeave = q.pLeave
       /\ pArrive = q.pArrive
       /\ pAttack = q.pAttack
       /\ alpha = q.alpha
       /\ Kmort = q.Kmort
       /\ Kfec = q.Kfec
  /\ IdleMain
  /\ IdleSim
  /\ IdleFwd
  /\ hormone \in FwdPolicies
  /\ Wopt = ZeroWopt
  /\ W = ZeroW
  /\ V = ZeroV
  /\ Wnext = ZeroW
  /\ t = 0
  /\ ts = 0
  /\ d = 0
  /\ LHS = 0
  /\ RHS = 0
  /\ x1 = 0
  /\ x2 = 0
  /\ fitness_x1 = 0
  /\ fitness_x2 = 0
  /\ pc = "fwd"
  /\ assigned = {}
  /\ reads = {}
  /\ epochWopt = {}

NextFwd == FwdBegin \/ FwdWhile \/ FwdCell \/ FwdNorm
SpecFwd == InitFwd /\ [][NextFwd]_vars

\* ------------------------------------------------- simulated attacks
\* SimAttacks, line 517: number of simulated time steps
time_sim_max == maxTs * 3
\* line 525: time point at which reproduction takes place
treproduce == 40
\* line 540: the predator attacks while attackAfter < time_i < attackBefore
attackAfter == 16
attackBefore == 33

\* the % of C++ on ints: the quotient truncates towards zero, so the
\* remainder has the sign of the dividend
RemTrunc(a, b) == IF a >= 0 THEN a % b ELSE -((-a) % b)

\* an int read outside its array: a cell of a neighbouring row or object,
\* a signal level or any other int
WildH == HRange \cup {-1, maxH + 1}
\* floor / ceil of a double read outside dnew
WildD == DRange \cup {-1, maxD + 1}

InPolicy(tt, e, dd) == tt \in TRange /\ e \in TsRange /\ dd \in DRange

\* lines 536 and 556: the values a read of hormone[tt][e][dd] can yield
HormoneRead(tt, e, dd) ==
  IF InPolicy(tt, e, dd) THEN {hormone[tt][e][dd]} ELSE WildH

\* lines 558-564: the damage after one step, d2 when Uniform(mt) < ddec
DamageDraw(dd, hh) ==
  IF dd \in DRange /\ hh \in HRange
  THEN IF d2Of(dd, hh) # d1Of(dd, hh)
       THEN {d1Of(dd, hh), d2Of(dd, hh)}
       ELSE {d1Of(dd, hh)}
  ELSE WildD

simUnchanged == <<params, arrays, mainv, searchv, histv, F, predDeaths, damageDeaths,
                  bkgrndDeaths, maxfreqdiff, fwd_i, processed, late, lastMove>>

\* SimAttacks, lines 517-536: initialise the individual and read its signal
SimBegin ==
  /\ pc = "sim"
  /\ attack' = FALSE
  /\ time_i' = 0
  /\ t' = maxT
  /\ ts' = maxTs - treproduce
  /\ reproduce' = 0
  /\ d' = 0
  /\ simRead' = <<maxT, maxTs - treproduce, 0>>
  /\ h' \in HormoneRead(maxT, maxTs - treproduce, 0)
  /\ pc' = "sim_loop"
  /\ UNCHANGED simUnchanged

\* lines 538-567: one simulated time step
SimStep ==
  /\ pc = "sim_loop"
  /\ time_i < time_sim_max
  /\ LET inAttack == time_i > attackAfter /\ time_i < attackBefore
         t1 == IF inAttack THEN 0 ELSE t + 1
         t2 == IF t1 >= maxT THEN maxT ELSE t1
         e == RemTrunc(ts, maxTs)
     IN /\ attack' = inAttack
        /\ t' = t2
        /\ simRead' = <<t2, e, d>>
        /\ h' \in HormoneRead(t2, e, d)
        /\ reproduce' = e
        /\ d' \in DamageDraw(d, h')
  /\ ts' = ts + 1
  /\ time_i' = time_i + 1
  /\ UNCHANGED <<simUnchanged, pc>>

\* line 538 and lines 570-572: the loop has run time_sim_max times
SimEnd ==
  /\ pc = "sim_loop"
  /\ ~(time_i < time_sim_max)
  /\ pc' = "sim_done"
  /\ UNCHANGED <<simUnchanged, simv, t, ts, d, h>>

\* SimAttacks called on a computed policy (main, line 642)
InitSim ==
  /\ DefaultParams
  /\ IdleMain
  /\ IdleFwd
  /\ IdleSim
  /\ hormone \in FwdPolicies
  /\ Wopt = ZeroWopt
  /\ W = ZeroW
  /\ V = ZeroV
  /\ Wnext = ZeroW
  /\ t = 0
  /\ ts = 0
  /\ d = 0
  /\ LHS = 0
  /\ RHS = 0
  /\ x1 = 0
  /\ x2 = 0
  /\ fitness_x1 = 0
  /\ fitness_x2 = 0
  /\ pc = "sim"
  /\ assigned = {}
  /\ reads = {}
  /\ epochWopt = {}

NextSim == SimBegin \/ SimStep \/ SimEnd
SpecSim == InitSim /\ [][NextSim]_vars

\* =============================================================== properties

\* C1: for a strictly unimodal objective row with peak index p, the search
\* stores a decision hormone[t][ts][d] with |hormone[t][ts][d] - p| <= 1.
C1_SearchWithinOne ==
  pc = "search_next" =>
    \A p \in HRange :
      IsPeak(Objective(t, ts, d), p) => Abs(hormone[t][ts][d] - p) <= 1
\* a search over a unimodal row that ends one index off the peak
C1_Witness ==
  /\ pc = "search_next"
  /\ \E p \in HRange :
       IsPeak(Objective(t, ts, d), p) /\ Abs(hormone[t][ts][d] - p) = 1

\* C2: after the decision search of state (t, ts, d), Wopt[t][ts][d] is the
\* objective evaluated at the stored decision hormone[t][ts][d].
C2_WoptIsFitnessAtDecision ==
  pc = "search_next" =>
    Wopt[t][ts][d] = Objective(t, ts, d)[hormone[t][ts][d]]

\* C10: the loop while (x1 < x2) terminates for every objective row: the
\* search reaches the store after its loop.
C10_SearchTerminates == <>(pc = "search_next")
\* a search over a row that is not unimodal that ran the loop and ended
C10_Witness ==
  /\ pc = "search_next"
  /\ reads # {}
  /\ \A p \in HRange : ~IsPeak(Objective(t, ts, d), p)

\* C4: the outer loop runs OptDec and ReplaceFit at most maxI times, leaves
\* at the first iteration whose totfitdiff is below the tolerance, writes
\* the did-not-converge report exactly when all maxI iterations ran without
\* that, and in both cases goes on to print the last computed policy.
InIteration ==
  pc \in {"search_begin", "search_loop", "search_next", "backprop", "replace", "check"}
C4_LoopState ==
  /\ InIteration => (i >= 1 /\ i <= maxI /\ ~report)
  /\ (pc = "for_i" /\ i > 1) => ~BelowTol(totfitdiff)
  /\ pc \in {"print", "printed"} =>
       /\ report <=> (i = maxI + 1)
       /\ report <=> ~BelowTol(totfitdiff)
  /\ pc = "printed" =>
       printed = <<[tt \in TRange |-> [s \in 0..(maxTs - 1) |-> hormone[tt][s]]], i>>
C4_LoopStep ==
  /\ (pc = "check" /\ BelowTol(totfitdiff)) => (pc' = "print" /\ i' = i)
  /\ (pc = "check" /\ ~BelowTol(totfitdiff)) => (pc' = "for_i" /\ i' = i + 1)
  /\ (pc = "for_i" /\ i > maxI) => pc' = "print"
  /\ pc = "print" => pc' = "printed"
C4_ValueIterationLoop ==
  /\ []C4_LoopState
  /\ [][C4_LoopStep]_vars
\* the policy was printed after a run that left the loop early
C4_Witness ==
  /\ pc = "printed"
  /\ ~report
  /\ i > 1
  /\ i < maxI

\* C5: after ReplaceFit the policy at the season boundary equals the policy
\* at epoch 0 for every t in 0..maxT and every d in 0..maxD.
C5_BoundaryPolicyCopied ==
  pc = "check" =>
    \A tt \in TRange, dd \in DRange : hormone[tt][maxTs][dd] = hormone[tt][0][dd]

\* C9: every entry OptDec reads was assigned before the read: Wnext only at
\* t-index >= 1 and epoch 1..maxTs, on rows assigned by FinalFit, ReplaceFit
\* or OptDec; Wopt only at entries written in the same epoch; and OptDec
\* touches neither hormone nor Wopt at ts = maxTs.
C9_ReadsAreAssigned ==
  /\ \A r \in reads :
       /\ r[5]
       /\ r[1] = "Wnext" => (r[2] >= 1 /\ r[3] >= 1 /\ r[3] <= maxTs)
       /\ r[1] = "Wopt" => r[3] < maxTs
  /\ \A e \in epochWopt : e[2] < maxTs
\* the second call of OptDec has read Wnext at the season boundary, as
\* written by ReplaceFit, and Wopt of its own epoch
C9_Witness ==
  /\ pc = "replace"
  /\ i = 2
  /\ \E r \in reads : r[1] = "Wnext" /\ r[3] = maxTs
  /\ \E r \in reads : r[1] = "Wnext" /\ r[3] < maxTs
  /\ \E r \in reads : r[1] = "Wopt" /\ r[2] = 0

\* rounding of the fixed-point products: one percent of the total mass
MassTol == SCALE \div 100

\* C3: at every season boundary, after the renormalisation, the total
\* frequency mass copied into F[t][0][d][h] for the next cycle is 1.
C3_MassIsOneAfterNormalisation ==
  (pc = "fwd_while" /\ fwd_i >= 1) => Abs(Mass(0) - SCALE) <= MassTol

\* C6: the no-attack branch of fwdCalc moves mass from t to min(maxT, t+1),
\* the successor the fitness recursion uses, and the survived-attack branch
\* to the restarted clock.
C6_SameSuccessorAsRecursion ==
  lastMove # <<>> => (lastMove[2] = SuccT(lastMove[1]) /\ lastMove[3] = SuccT(0))

\* C7: within one sweep the mass at ts = 0 equals the mass arrived at
\* ts = maxTs plus the three death tallies, and no mass is added to a cell
\* after the cell was processed as a source.
C7_SweepConservesMass ==
  /\ late = {}
  /\ pc = "fwd_norm" =>
       Abs(Mass(0) - (Mass(maxTs) + predDeaths + damageDeaths + bkgrndDeaths)) <= MassTol

\* C8 as stated: for every t >= 1 and h the two branch weights of the
\* fitness recursion sum to 1.
BackPropDone == \E a \in assigned : a[1] = "Wnext" /\ a[3] < maxTs
C8_WeightsSumToOne ==
  BackPropDone =>
    \A tt \in 1..maxT, hh \in HRange :
      BranchWeights(tt, hh)[1] + BranchWeights(tt, hh)[2] = SCALE
\* C8 as amended: the no-attack weight does not depend on h, and the two
\* weights together with the killed-by-the-predator share
\* pPred[t]*pAttack*pKilled[h] sum to 1 (to one quantum of the fixed point),
\* so the two weights alone sum to 1 - pPred[t]*pAttack*pKilled[h].
C8_WeightsAndKilledSumToOne ==
  BackPropDone =>
    \A tt \in 1..maxT, hh \in HRange :
      LET w == BranchWeights(tt, hh)
          total == w[1] + w[2] + KilledWeight(tt, hh)
      IN /\ total <= SCALE
         /\ total >= SCALE - 1
         /\ w[2] = BranchWeights(tt, maxH)[2]
\* the recursion ran with a state whose killed share is positive, so its
\* two weights sum to less than 1
C8_Witness ==
  /\ BackPropDone
  /\ \E tt \in 1..maxT, hh \in HRange :
       /\ KilledWeight(tt, hh) > 0
       /\ BranchWeights(tt, hh)[1] > 0
       /\ BranchWeights(tt, hh)[1] + BranchWeights(tt, hh)[2] < SCALE

\* C11: at every step of the golden-section search, for every objective row,
\* 0 <= LHS <= x1 and x2 <= RHS <= maxH, so the indices x1 and x2 used to read
\* Wnext and the x1 stored in hormone lie in 0..maxH.
C11_BracketInsideLattice ==
  /\ pc = "search_loop" =>
       /\ 0 <= LHS /\ LHS <= x1
       /\ x2 <= RHS /\ RHS <= maxH
       /\ x1 \in HRange /\ x2 \in HRange
  /\ pc = "search_next" =>
       /\ 0 <= LHS /\ LHS <= x1
       /\ x2 <= RHS /\ RHS <= maxH
       /\ hormone[t][ts][d] = x1
       /\ hormone[t][ts][d] \in HRange
\* a finished search whose bracket was narrowed from both sides
C11_Witness ==
  /\ pc = "search_next"
  /\ reads # {}
  /\ LHS > 0
  /\ RHS < maxH

\* C12: every read of the policy in SimAttacks uses indices inside the
\* array: 0 <= t <= maxT, 0 <= epoch index <= maxTs, 0 <= d <= maxD.
C12_SimReadsInsidePolicy ==
  pc \in {"sim_loop", "sim_done"} => InPolicy(simRead[1], simRead[2], simRead[3])

====
